---------------------------- MODULE Spec2Model ----------------------------
(***************************************************************************)
(* Protein knot detector: the fragmentation-and-classification pipeline.   *)
(*                                                                         *)
(* Three entry points are modelled, one per source file:                   *)
(*   "alpha_lookup"  src/alpha_lookup.py   (console, windowed + direct)    *)
(*   "app"           src/app.py            (Streamlit, windowed + direct)  *)
(*   "pipeline"      src/pipeline(with_ModeII_Removed).py  (direct only)   *)
(*                                                                         *)
(* Units.  Probabilities are integers in percent (0.50 is 50, 0.2 is 20).  *)
(* Confidence values (B-factor column) are integers in hundredths (1.0 is  *)
(* 100, 70.0 is 7000).  A sequence is represented by its length: no branch *)
(* of the code reads a residue.                                            *)
(***************************************************************************)
EXTENDS Integers, Sequences, FiniteSets, TLC

VARIABLES
    variant,            \* which entry point is running
    online,             \* whether the structure service can be reached at all
    input,              \* the text the user typed: [residues, junk]
    window_size,        \* WINDOW_SIZE
    overlap,            \* OVERLAP
    min_fragment_size,  \* the literal 50 of the windowing loop
    pc,                 \* position of the run
    seq_len,            \* len(raw_seq) / len(clean_seq)
    mode,               \* "none" | "windowed" | "direct"
    start,              \* loop variable of range(0, seq_len, step)
    chunks,             \* app.py: the chunks list; alpha_lookup.py: the ranges handed to analyze_chunk so far
    idx,                \* app.py: 1-based position in chunks
    frag,               \* the fragment under analysis
    attempts,           \* history: one entry per fragment whose analysis ended
    results,            \* knots_found / results
    conclusion          \* what the final report says

vars == <<variant, online, input, window_size, overlap, min_fragment_size, pc,
          seq_len, mode, start, chunks, idx, frag, attempts, results, conclusion>>

config == <<window_size, overlap, min_fragment_size>>

---------------------------------------------------------------------------
(* Program constants *)

WINDOW_SIZE == 400
OVERLAP == 200
MIN_FRAGMENT == 50
SINGLE_SHOT_LIMIT == 400
KNOT_THRESHOLD == 50
AMBIGUITY_FLOOR == 20
MINIMUM_PLDDT == 7000
NORMALIZED_MAX == 100
EMPTY_DEFAULT_PIPELINE == 10000
API_LENGTH_LIMIT == 2000

(* Bounds of the model *)

MaxSeqLen == 651        \* longest input while the service answers
MaxOfflineLen == 1250   \* longest input while the service is unreachable
MaxJunk == 1            \* characters of the input that are not residues
MaxParamLen == 5        \* ParamSpec: longest sequence
MaxWindow == 4          \* ParamSpec: largest window_size
MaxOverlap == 4         \* ParamSpec: largest overlap
MaxMinFragment == 2     \* ParamSpec: largest min_fragment_size

Variants == {"alpha_lookup", "app", "pipeline"}
WindowedVariants == {"alpha_lookup", "app"}

---------------------------------------------------------------------------
(* The documents the structure service may return.  atoms: the confidence  *)
(* column of each ATOM record; readable: whether the stored file can be    *)
(* opened again; raises: whether topoly.alexander raises on it; dist: the  *)
(* distribution topoly.alexander returns.                                  *)

EmptyDist == [k \in {} |-> 0]

Docs ==
    << [atoms |-> <<9000, 9200>>, readable |-> TRUE,  raises |-> FALSE,
        dist |-> ("0_1" :> 100)],
       [atoms |-> <<80, 90>>,     readable |-> TRUE,  raises |-> FALSE,
        dist |-> ("0_1" :> 50) @@ ("3_1" :> 50)],
       [atoms |-> <<9000>>,       readable |-> TRUE,  raises |-> FALSE,
        dist |-> ("0_1" :> 30) @@ ("3_1" :> 70)],
       [atoms |-> <<6000, 7000>>, readable |-> TRUE,  raises |-> FALSE,
        dist |-> ("3_1" :> 60) @@ ("4_1" :> 40)],
       [atoms |-> <<>>,           readable |-> TRUE,  raises |-> FALSE,
        dist |-> ("0_1" :> 85) @@ ("3_1" :> 15)],
       [atoms |-> <<8000>>,       readable |-> TRUE,  raises |-> FALSE,
        dist |-> ("0_1" :> 80) @@ ("3_1" :> 20)],
       [atoms |-> <<9000>>,       readable |-> FALSE, raises |-> FALSE,
        dist |-> EmptyDist],
       [atoms |-> <<7500>>,       readable |-> TRUE,  raises |-> TRUE,
        dist |-> EmptyDist] >>

DocIds == 1..Len(Docs)

(* What requests.post can do: raise, or answer with a status. *)
Responses(up) ==
    IF up THEN {"exception", "413", "500", "200"} ELSE {"exception"}

---------------------------------------------------------------------------
(* Pure helpers *)

Min(a, b) == IF a <= b THEN a ELSE b

RECURSIVE Sum(_)
Sum(s) == IF s = <<>> THEN 0 ELSE Head(s) + Sum(Tail(s))

(* np.mean over the parsed values (the chosen documents have exact means) *)
Mean(s) == Sum(s) \div Len(s)

(* calculate_plddt *)
calculate_plddt(v, doc) ==
    IF ~doc.readable THEN 0
    ELSE IF doc.atoms = <<>>
         THEN (IF v = "pipeline" THEN EMPTY_DEFAULT_PIPELINE ELSE 0)
    ELSE IF v = "app" THEN Mean(doc.atoms)
    ELSE IF Mean(doc.atoms) <= NORMALIZED_MAX THEN Mean(doc.atoms) * 100
    ELSE Mean(doc.atoms)

Get(dist, k, default) == IF k \in DOMAIN dist THEN dist[k] ELSE default

(* max(alex_dist, key=alex_dist.get): the first maximal key in the dict's   *)
(* iteration order, which the library decides: any maximal key.             *)
ArgMax(dist) == {k \in DOMAIN dist : \A j \in DOMAIN dist : dist[j] <= dist[k]}

run_topology_analysis_RaiseAsKnotted(doc) ==
    IF doc.raises THEN {[knot_type |-> "None", prob |-> 100 - 0]}
    ELSE IF DOMAIN doc.dist = {} THEN {[knot_type |-> "0_1", prob |-> 0]}
    ELSE {[knot_type |-> k, prob |-> 100 - Get(doc.dist, "0_1", 0)] : k \in ArgMax(doc.dist)}

(* run_topology_analysis: the set of (dominant_knot, prob_knotted) it may return *)
run_topology_analysis(doc) ==
    IF doc.raises THEN {[knot_type |-> "None", prob |-> 0]}
    ELSE IF DOMAIN doc.dist = {} THEN {[knot_type |-> "0_1", prob |-> 0]}
    ELSE {[knot_type |-> k, prob |-> 100 - Get(doc.dist, "0_1", 0)] : k \in ArgMax(doc.dist)}

IsKnotted_AtLeast(prob) == prob >= KNOT_THRESHOLD

(* prob > KNOT_THRESHOLD *)
IsKnotted(prob) == prob > KNOT_THRESHOLD

IsLarge_AtLeast(n) == n >= SINGLE_SHOT_LIMIT

(* len(seq) > 400 *)
IsLarge(n) == n > SINGLE_SHOT_LIMIT

Step_NoOverlap == window_size

(* step = WINDOW_SIZE - OVERLAP *)
Step == window_size - overlap

ChunkEnd_Unclamped(s) == s + window_size

(* end = min(start + WINDOW_SIZE, seq_len) *)
ChunkEnd(s) == Min(s + window_size, seq_len)

TooShort_Truncated(s) == (ChunkEnd(s) - s) < window_size

(* (end - start) < 50 *)
TooShort(s) == (ChunkEnd(s) - s) < min_fragment_size

(* Whether range(0, seq_len, step) yields s, for step # 0 *)
InRange(s) == Step > 0 /\ s < seq_len

RangeLabel_ZeroBased(s, e) == <<s, e>>

(* f"{start+1}-{end}" *)
RangeLabel(s, e) == <<s + 1, e>>

(* f"{x:.1f}" of a value in hundredths: tenths, rounded *)
Fmt1(q) == (q + 5) \div 10

(* len(raw_seq): the text typed by the user, inner blanks included (the    *)
(* console entry points strip them only inside retrieve_structure, after   *)
(* the length has been measured and the slices taken)                      *)
RawLen(inp) == inp.residues + inp.junk

(* sanitize_sequence: keeps the standard residue letters only *)
sanitize_sequence(inp) == inp.residues

NoFrag ==
    [stage |-> "IDLE", range |-> <<0, 0>>, failure |-> "none", doc |-> 0,
     plddt |-> 0, knot_type |-> "None", prob |-> 0, is_knotted |-> FALSE]

NewFrag(s, e) == [NoFrag EXCEPT !.stage = "SUBMITTED", !.range = <<s, e>>]

(* the dict appended to knots_found / results *)
ResultEntry(v, f) ==
    IF v = "app"
    THEN [range |-> RangeLabel(f.range[1], f.range[2]), type |-> f.knot_type,
          prob |-> f.prob * 10, quality |-> Fmt1(f.plddt),
          file |-> <<"fragment", f.range[1] + 1, f.range[2]>>]
    ELSE [range |-> RangeLabel(f.range[1], f.range[2]), type |-> f.knot_type,
          quality |-> f.plddt]

(* the final report of a windowed run *)
WindowedConclusion(res) == IF res # <<>> THEN "KNOTTED" ELSE "UNKNOTTED"

(* the final report of a direct run *)
DirectConclusion(v, prob) ==
    IF IsKnotted(prob) THEN "KNOTTED"
    ELSE IF v = "alpha_lookup" THEN "UNKNOTTED"
    ELSE IF prob < AMBIGUITY_FLOOR THEN "UNKNOTTED"
    ELSE "AMBIGUOUS"

AttemptStatus(f) ==
    IF f.stage = "FAILED" THEN "failed"
    ELSE IF f.is_knotted THEN "knotted" ELSE "clear"

---------------------------------------------------------------------------
(* Initial states *)

Idle ==
    /\ pc = "input"
    /\ seq_len = 0
    /\ mode = "none"
    /\ start = 0
    /\ chunks = <<>>
    /\ idx = 1
    /\ frag = NoFrag
    /\ attempts = <<>>
    /\ results = <<>>
    /\ conclusion = "NONE"

Init ==
    /\ variant \in Variants
    /\ online \in BOOLEAN
    /\ input \in [residues : 0..MaxOfflineLen, junk : 0..MaxJunk]
    /\ input.residues <= (IF online THEN MaxSeqLen ELSE MaxOfflineLen)
    /\ window_size = WINDOW_SIZE
    /\ overlap = OVERLAP
    /\ min_fragment_size = MIN_FRAGMENT
    /\ Idle

---------------------------------------------------------------------------
(* Entry points *)

(* alpha_lookup.py __main__ *)
AlphaMain ==
    /\ pc = "input" /\ variant = "alpha_lookup"
    /\ seq_len' = RawLen(input)
    /\ IF IsLarge(RawLen(input))
       THEN /\ mode' = "windowed"
            /\ pc' = "window"
            /\ frag' = frag
       ELSE /\ mode' = "direct"
            /\ pc' = "fragment"
            /\ frag' = NewFrag(0, RawLen(input))
    /\ UNCHANGED <<variant, online, input, config, start, chunks, idx, attempts,
                   results, conclusion>>

(* app.py "Run Analysis" handler, up to the mode decision *)
AppRunAnalysis ==
    /\ pc = "input" /\ variant = "app"
    /\ IF RawLen(input) = 0
       THEN /\ pc' = "rejected"
            /\ UNCHANGED <<seq_len, mode, frag>>
       ELSE /\ seq_len' = sanitize_sequence(input)
            /\ IF IsLarge(sanitize_sequence(input))
               THEN /\ mode' = "windowed"
                    /\ pc' = "plan"
                    /\ frag' = frag
               ELSE /\ mode' = "direct"
                    /\ pc' = "fragment"
                    /\ frag' = NewFrag(0, sanitize_sequence(input))
    /\ UNCHANGED <<variant, online, input, config, start, chunks, idx, attempts,
                   results, conclusion>>

(* pipeline __main__: always direct *)
PipelineMain ==
    /\ pc = "input" /\ variant = "pipeline"
    /\ seq_len' = RawLen(input)
    /\ mode' = "direct"
    /\ pc' = "fragment"
    /\ frag' = NewFrag(0, RawLen(input))
    /\ UNCHANGED <<variant, online, input, config, start, chunks, idx, attempts,
                   results, conclusion>>

---------------------------------------------------------------------------
(* Windowing *)

(* range(0, seq_len, 0) raises ValueError; nothing catches it *)
RangeStepZero ==
    /\ pc \in {"window", "plan"}
    /\ Step = 0
    /\ pc' = "crashed"
    /\ UNCHANGED <<variant, online, input, config, seq_len, mode, start, chunks,
                   idx, frag, attempts, results, conclusion>>

(* app.py: one iteration of the chunk-planning loop that appends *)
PlanChunk ==
    /\ pc = "plan" /\ Step # 0
    /\ InRange(start) /\ ~TooShort(start)
    /\ chunks' = Append(chunks, <<start, ChunkEnd(start)>>)
    /\ start' = start + Step
    /\ UNCHANGED <<variant, online, input, config, pc, seq_len, mode, idx, frag,
                   attempts, results, conclusion>>

(* app.py: the planning loop ends (range exhausted, or break) *)
PlanDone ==
    /\ pc = "plan" /\ Step # 0
    /\ ~(InRange(start) /\ ~TooShort(start))
    /\ pc' = "window"
    /\ idx' = 1
    /\ UNCHANGED <<variant, online, input, config, seq_len, mode, start, chunks,
                   frag, attempts, results, conclusion>>

(* app.py: the fragment loop takes the next chunk *)
AppNextChunk ==
    /\ pc = "window" /\ variant = "app"
    /\ idx <= Len(chunks)
    /\ frag' = NewFrag(chunks[idx][1], chunks[idx][2])
    /\ pc' = "fragment"
    /\ UNCHANGED <<variant, online, input, config, seq_len, mode, start, chunks,
                   idx, attempts, results, conclusion>>

(* alpha_lookup.py: one iteration of run_sliding_window that calls analyze_chunk *)
AlphaNextWindow ==
    /\ pc = "window" /\ variant = "alpha_lookup" /\ Step # 0
    /\ InRange(start) /\ ~TooShort(start)
    /\ chunks' = Append(chunks, <<start, ChunkEnd(start)>>)
    /\ frag' = NewFrag(start, ChunkEnd(start))
    /\ pc' = "fragment"
    /\ UNCHANGED <<variant, online, input, config, seq_len, mode, start, idx,
                   attempts, results, conclusion>>

(* the loop is over: the final report *)
WindowedReport ==
    /\ pc = "window"
    /\ \/ variant = "app" /\ idx > Len(chunks)
       \/ variant = "alpha_lookup" /\ Step # 0 /\ ~(InRange(start) /\ ~TooShort(start))
    /\ conclusion' = WindowedConclusion(results)
    /\ pc' = "done"
    /\ UNCHANGED <<variant, online, input, config, seq_len, mode, start, chunks,
                   idx, frag, attempts, results>>

---------------------------------------------------------------------------
(* One fragment *)

(* requests.post returns or raises *)
Respond ==
    /\ pc = "fragment" /\ frag.stage = "SUBMITTED"
    /\ \E r \in Responses(online) :
         frag' =
           IF variant = "pipeline" /\ (frag.range[2] - frag.range[1]) > API_LENGTH_LIMIT
           THEN [frag EXCEPT !.stage = "FAILED", !.failure = "too long"]
           ELSE IF r = "200" THEN [frag EXCEPT !.stage = "STRUCTURED"]
           ELSE [frag EXCEPT !.stage = "FAILED", !.failure = r]
    /\ UNCHANGED <<variant, online, input, config, pc, seq_len, mode, start, chunks,
                   idx, attempts, results, conclusion>>

(* the response text is written to the fragment's file *)
Persist ==
    /\ pc = "fragment" /\ frag.stage = "STRUCTURED"
    /\ \E d \in DocIds \cup {0} :
         frag' = IF d = 0
                 THEN [frag EXCEPT !.stage = "FAILED", !.failure = "write"]
                 ELSE [frag EXCEPT !.stage = "STORED", !.doc = d]
    /\ UNCHANGED <<variant, online, input, config, pc, seq_len, mode, start, chunks,
                   idx, attempts, results, conclusion>>

(* calculate_plddt *)
Assess ==
    /\ pc = "fragment" /\ frag.stage = "STORED"
    /\ frag' = [frag EXCEPT !.stage = "ASSESSED",
                            !.plddt = calculate_plddt(variant, Docs[frag.doc])]
    /\ UNCHANGED <<variant, online, input, config, pc, seq_len, mode, start, chunks,
                   idx, attempts, results, conclusion>>

(* run_topology_analysis *)
Classify ==
    /\ pc = "fragment" /\ frag.stage = "ASSESSED"
    /\ \E t \in run_topology_analysis(Docs[frag.doc]) :
         frag' = [frag EXCEPT !.stage = "CLASSIFIED", !.knot_type = t.knot_type,
                              !.prob = t.prob]
    /\ UNCHANGED <<variant, online, input, config, pc, seq_len, mode, start, chunks,
                   idx, attempts, results, conclusion>>

(* windowed: the threshold test *)
Decide ==
    /\ pc = "fragment" /\ mode = "windowed" /\ frag.stage = "CLASSIFIED"
    /\ frag' = [frag EXCEPT !.stage = "DONE", !.is_knotted = IsKnotted(frag.prob),
                            !.doc = 0]
    /\ UNCHANGED <<variant, online, input, config, pc, seq_len, mode, start, chunks,
                   idx, attempts, results, conclusion>>

Collect_AbortOnFailure ==
    /\ pc = "fragment" /\ mode = "windowed" /\ frag.stage \in {"DONE", "FAILED"}
    /\ results' = IF frag.is_knotted
                  THEN Append(results, ResultEntry(variant, frag)) ELSE results
    /\ attempts' = Append(attempts, [range |-> frag.range, status |-> AttemptStatus(frag)])
    /\ frag' = NoFrag
    /\ IF frag.stage = "FAILED"
       THEN /\ pc' = "done"
            /\ conclusion' = WindowedConclusion(results)
            /\ UNCHANGED <<start, idx>>
       ELSE /\ pc' = "window"
            /\ conclusion' = conclusion
            /\ IF variant = "app"
               THEN idx' = idx + 1 /\ start' = start
               ELSE start' = start + Step /\ idx' = idx
    /\ UNCHANGED <<variant, online, input, config, seq_len, mode, chunks>>

(* windowed: the fragment's outcome is collected and the loop goes on *)
Collect ==
    /\ pc = "fragment" /\ mode = "windowed" /\ frag.stage \in {"DONE", "FAILED"}
    /\ results' = IF frag.is_knotted
                  THEN Append(results, ResultEntry(variant, frag)) ELSE results
    /\ attempts' = Append(attempts, [range |-> frag.range, status |-> AttemptStatus(frag)])
    /\ frag' = NoFrag
    /\ pc' = "window"
    /\ IF variant = "app"
       THEN idx' = idx + 1 /\ start' = start
       ELSE start' = start + Step /\ idx' = idx
    /\ UNCHANGED <<variant, online, input, config, seq_len, mode, chunks, conclusion>>

(* direct: the report of the single analysis *)
DirectReport ==
    /\ pc = "fragment" /\ mode = "direct" /\ frag.stage \in {"CLASSIFIED", "FAILED"}
    /\ IF frag.stage = "CLASSIFIED"
       THEN /\ frag' = [frag EXCEPT !.stage = "DONE",
                                    !.is_knotted = IsKnotted(frag.prob), !.doc = 0]
            /\ conclusion' = DirectConclusion(variant, frag.prob)
            /\ attempts' = Append(attempts,
                 [range |-> frag.range,
                  status |-> IF IsKnotted(frag.prob) THEN "knotted" ELSE "clear"])
       ELSE /\ frag' = frag
            /\ conclusion' = "NONE"
            /\ attempts' = Append(attempts, [range |-> frag.range, status |-> "failed"])
    /\ pc' = "done"
    /\ UNCHANGED <<variant, online, input, config, seq_len, mode, start, chunks,
                   idx, results>>

---------------------------------------------------------------------------
(* Specifications *)

Fragment == Respond \/ Persist \/ Assess \/ Classify

Next ==
    \/ AlphaMain \/ AppRunAnalysis \/ PipelineMain
    \/ PlanChunk \/ PlanDone \/ AppNextChunk \/ AlphaNextWindow \/ WindowedReport
    \/ Fragment \/ Decide \/ Collect \/ DirectReport

Spec == Init /\ [][Next]_vars

(* run_sliding_window / the chunk loop of app.py entered with the windowing *)
(* parameters set to any small values                                       *)
ParamInit ==
    /\ variant \in WindowedVariants
    /\ online = TRUE
    /\ input \in [residues : 1..MaxParamLen, junk : {0}]
    /\ window_size \in 1..MaxWindow
    /\ overlap \in 0..MaxOverlap
    /\ min_fragment_size \in 0..MaxMinFragment
    /\ pc = IF variant = "app" THEN "plan" ELSE "window"
    /\ seq_len = input.residues
    /\ mode = "windowed"
    /\ start = 0
    /\ chunks = <<>>
    /\ idx = 1
    /\ frag = NoFrag
    /\ attempts = <<>>
    /\ results = <<>>
    /\ conclusion = "NONE"

ParamNext ==
    \/ RangeStepZero
    \/ PlanChunk \/ PlanDone \/ AppNextChunk \/ AlphaNextWindow \/ WindowedReport
    \/ Fragment \/ Decide \/ Collect

ParamSpec == ParamInit /\ [][ParamNext]_vars

---------------------------------------------------------------------------
(* Properties *)

Length(r) == r[2] - r[1]

Max(a, b) == IF a >= b THEN a ELSE b

(* number of residues two ranges have in common *)
Shared(a, b) == Max(0, Min(a[2], b[2]) - Max(a[1], b[1]))

ValidOverlap == 0 < overlap /\ overlap < window_size

(* the ranges the windowing rule of the design yields for the current      *)
(* parameters: every multiple of the step below seq_len whose window,      *)
(* clamped to seq_len, is at least min_fragment_size long (lengths never   *)
(* grow, so these are the windows before the first short one)              *)
ExpectedCount ==
    Cardinality({k \in 0..(seq_len \div Step) :
                   /\ k * Step < seq_len
                   /\ Min(k * Step + window_size, seq_len) - k * Step >= min_fragment_size})

ExpectedRanges ==
    [k \in 1..ExpectedCount |->
        <<(k - 1) * Step, Min((k - 1) * Step + window_size, seq_len)>>]

AllFailed == \A i \in 1..Len(attempts) : attempts[i].status = "failed"

IsKnottedAttempt(a) == a.status = "knotted"

(* C1: for 0 < overlap < window_size, the emitted ranges start at 0 and at  *)
(* every further multiple of window_size - overlap in turn, none ends      *)
(* beyond sequence_length, and every one (so the last one too) is at least *)
(* min_fragment_size long.                                                 *)
C1_PlannerRanges ==
    ValidOverlap =>
        \A i \in 1..Len(chunks) :
            /\ chunks[i][1] = (i - 1) * (window_size - overlap)
            /\ chunks[i][2] <= seq_len
            /\ Length(chunks[i]) >= min_fragment_size

C1_Witness ==
    /\ pc = "done" /\ ValidOverlap /\ min_fragment_size > 0
    /\ Len(chunks) >= 3
    /\ Length(chunks[Len(chunks)]) < window_size

(* C2 as stated: once the run is over, every pair of consecutive emitted   *)
(* ranges other than the pair ending in the final range shares exactly     *)
(* `overlap` residues, and the final range is at least min_fragment_size   *)
(* long.  Stated for sequences longer than one window only, the only ones  *)
(* the orchestrator hands to the planner.                                  *)
C2_Original ==
    (pc = "done" /\ ValidOverlap /\ seq_len > window_size) =>
        /\ \A i \in 1..(Len(chunks) - 1) :
              (i + 1 # Len(chunks)) => Shared(chunks[i], chunks[i + 1]) = overlap
        /\ chunks # <<>> => Length(chunks[Len(chunks)]) >= min_fragment_size

(* C2 amended: two consecutive emitted ranges share exactly `overlap`      *)
(* residues when the first of them has the full length window_size, and    *)
(* fewer when the first is cut at sequence_length; every emitted range is  *)
(* at least min_fragment_size long.                                        *)
C2_OverlapWhenFull ==
    ValidOverlap =>
        /\ \A i \in 1..(Len(chunks) - 1) :
              IF Length(chunks[i]) = window_size
              THEN Shared(chunks[i], chunks[i + 1]) = overlap
              ELSE Shared(chunks[i], chunks[i + 1]) < overlap
        /\ \A i \in 1..Len(chunks) :
              /\ Length(chunks[i]) <= window_size
              /\ Length(chunks[i]) >= min_fragment_size

C2_Witness ==
    /\ pc = "done" /\ ValidOverlap
    /\ \E i \in 1..(Len(chunks) - 2) :
          /\ Length(chunks[i]) < window_size
          /\ Shared(chunks[i], chunks[i + 1]) < overlap
    /\ \E i \in 1..(Len(chunks) - 1) : Length(chunks[i]) = window_size

(* C3: with window_size - overlap <= 0 the windowed run never completes    *)
(* normally with a report, and no fragment is ever submitted.              *)
C3_NonPositiveStepIsFatal ==
    (window_size - overlap <= 0) =>
        /\ pc # "done"
        /\ frag.stage = "IDLE"
        /\ attempts = <<>>

C5_FailuresAreLocal ==
    /\ pc # "crashed"
    /\ (pc = "done" /\ mode = "windowed") =>
          /\ [i \in 1..Len(attempts) |-> attempts[i].range] = ExpectedRanges
          /\ \A i \in 1..Len(attempts) :
                attempts[i].status = "failed" =>
                    \A j \in 1..Len(results) :
                        results[j].range # <<attempts[i].range[1] + 1, attempts[i].range[2]>>
          /\ AllFailed => (results = <<>> /\ conclusion = "UNKNOTTED")

C5_Witness ==
    /\ pc = "done" /\ mode = "windowed" /\ online
    /\ Len(attempts) >= 3
    /\ attempts[1].status = "failed"
    /\ attempts[2].status = "knotted"
    /\ attempts[3].status = "failed"
    /\ Len(results) = 1

(* C6: when a windowed run is over the report lists exactly the attempted  *)
(* fragments flagged knotted, in the order they were processed, each named *)
(* start+1..end, with ascending starts; the conclusion is KNOTTED exactly  *)
(* when the list is not empty, and UNKNOTTED otherwise.                    *)
C6_ReportIsKnottedFragments ==
    (pc = "done" /\ mode = "windowed") =>
        LET knotted == SelectSeq(attempts, IsKnottedAttempt) IN
        /\ Len(results) = Len(knotted)
        /\ \A i \in 1..Len(results) :
              results[i].range = <<knotted[i].range[1] + 1, knotted[i].range[2]>>
        /\ \A i \in 1..(Len(results) - 1) : results[i].range[1] < results[i + 1].range[1]
        /\ conclusion = IF results # <<>> THEN "KNOTTED" ELSE "UNKNOTTED"

C6_Witness ==
    /\ pc = "done" /\ mode = "windowed"
    /\ Len(results) = 2 /\ Len(attempts) = 3
    /\ attempts[2].status = "clear"

(* C7: every direct run whose analysis completed concludes KNOTTED above   *)
(* the threshold, UNKNOTTED below 0.2, and AMBIGUOUS in between, in each   *)
(* entry point.                                                            *)
C7_DirectThreeWay ==
    (pc = "done" /\ mode = "direct" /\ frag.stage = "DONE") =>
        conclusion =
            IF frag.prob > KNOT_THRESHOLD THEN "KNOTTED"
            ELSE IF frag.prob < AMBIGUITY_FLOOR THEN "UNKNOTTED"
            ELSE "AMBIGUOUS"

(* C8: in alpha_lookup.py and app.py, once the input is accepted, a        *)
(* sequence longer than 400 runs windowed and any other runs direct; a     *)
(* direct run plans no window and makes exactly one attempt, over          *)
(* [0, len).                                                               *)
C8_ModeByLength ==
    (variant \in WindowedVariants /\ pc \notin {"input", "rejected"}) =>
        /\ seq_len > SINGLE_SHOT_LIMIT => mode = "windowed"
        /\ seq_len <= SINGLE_SHOT_LIMIT =>
              /\ mode = "direct"
              /\ chunks = <<>> /\ results = <<>>
              /\ pc = "fragment" => (attempts = <<>> /\ frag.range = <<0, seq_len>>)
              /\ pc = "done" => (Len(attempts) = 1 /\ attempts[1].range = <<0, seq_len>>)

C8_Witness ==
    /\ variant = "app" /\ pc = "done" /\ mode = "direct"
    /\ seq_len = SINGLE_SHOT_LIMIT
    /\ Len(attempts) = 1 /\ attempts[1].status # "failed"

(* C9: a fragment fails only from SUBMITTED or STRUCTURED; a stored        *)
(* structure always goes on to ASSESSED, CLASSIFIED and DONE; a classifier *)
(* that raises or returns an empty distribution gives probability zero and *)
(* a fragment that is not knotted; the run never ends in an uncaught       *)
(* exception.                                                              *)
C9_StoredFragmentCompletes ==
    /\ [][
          /\ frag.stage = "STORED" => frag'.stage = "ASSESSED"
          /\ frag.stage = "ASSESSED" => frag'.stage = "CLASSIFIED"
          /\ frag.stage = "CLASSIFIED" => frag'.stage = "DONE"
          /\ (frag'.stage = "FAILED" /\ frag.stage # "FAILED")
                => frag.stage \in {"SUBMITTED", "STRUCTURED"}
          /\ (frag.stage = "ASSESSED"
                /\ (Docs[frag.doc].raises \/ DOMAIN Docs[frag.doc].dist = {}))
                => frag'.prob = 0
          /\ (frag.stage = "CLASSIFIED" /\ frag.prob = 0) => ~frag'.is_knotted
          /\ pc' # "crashed"
       ]_vars
    /\ [](frag.stage \in {"STORED", "ASSESSED", "CLASSIFIED"} => ENABLED <<Next>>_vars)

C9_Witness ==
    /\ mode = "windowed" /\ frag.stage = "DONE"
    /\ frag.knot_type = "None" /\ frag.prob = 0 /\ ~frag.is_knotted

(* C10: with window 400, overlap 200, minimum fragment 50 and a sequence   *)
(* longer than 400, when the windowed run is over every index of           *)
(* [0, sequence_length) lies in an emitted range and the last emitted      *)
(* range ends at sequence_length.                                          *)
C10_ReferenceCoverage ==
    (pc = "done" /\ mode = "windowed" /\ seq_len > SINGLE_SHOT_LIMIT) =>
        /\ chunks # <<>>
        /\ chunks[Len(chunks)][2] = seq_len
        /\ \A r \in 0..(seq_len - 1) :
              \E i \in 1..Len(chunks) : chunks[i][1] <= r /\ r < chunks[i][2]

C10_Witness ==
    /\ pc = "done" /\ mode = "windowed" /\ seq_len > SINGLE_SHOT_LIMIT
    /\ Len(chunks) >= 5
    /\ InRange(start) /\ TooShort(start)

===========================================================================
